---- MODULE Spec2Model ----
(***************************************************************************)
(* TaskFlow backend (backend/src/app.py): the task resource and its        *)
(* create / get / list / update / delete / health handlers over the        *)
(* record store.                                                           *)
(*                                                                         *)
(* Strings are sequences of one-character strings, so that len() and       *)
(* str.strip() are computed and not assumed.  An Optional value is None    *)
(* (the empty tuple) or Some(v) (the one-element tuple <<v>>).  A request  *)
(* body is a function from the names of the fields the client supplied     *)
(* to Optional values, which keeps "absent" apart from "supplied as null". *)
(* Request validation (the pydantic models) runs before a handler's body.  *)
(***************************************************************************)
EXTENDS Integers, Sequences, FiniteSets, TLC

VARIABLES store, now, nreq, response

vars == <<store, now, nreq, response>>

(* ------------------------------ bounds ------------------------------- *)

\* number of requests of one run
MaxRequests == 2
\* number of times the clock advances in one run
MaxTime == 1

(* ------------------------- values and strings ------------------------ *)

None == <<>>
Some(v) == <<v>>

Rep(c, n) == [i \in 1..n |-> c]

IsSpace(c) == c \in {" ", "\t", "\n"}

RECURSIVE lstrip(_)
lstrip(s) ==
  IF s = <<>> THEN s
  ELSE IF IsSpace(Head(s)) THEN lstrip(Tail(s)) ELSE s

RECURSIVE rstrip(_)
rstrip(s) ==
  IF s = <<>> THEN s
  ELSE IF IsSpace(s[Len(s)]) THEN rstrip(SubSeq(s, 1, Len(s) - 1)) ELSE s

\* str.strip()
strip(s) == rstrip(lstrip(s))

\* dict.get as "d.get(k) or default": a field supplied as null counts as absent
get_NullIsAbsent(d, k, default) ==
  IF k \in DOMAIN d /\ d[k] # None THEN d[k] ELSE default

\* dict.get(key, default)
get(d, k, default) == IF k \in DOMAIN d THEN d[k] ELSE default

\* Python truth value of an Optional[str]: None and "" are false
TruthyStr(o) == o # None /\ o[1] # <<>>

\* Python truth value of an Optional enum member: only None is false
TruthyEnum(o) == o # None

(* ----------------------------- the schema ---------------------------- *)

TaskStatus == {"todo", "in_progress", "done"}
TaskPriority == {"low", "medium", "high"}

TitleMinLen == 1
TitleMaxLen == 200
DescriptionMaxLen == 1000
AssigneeMaxLen == 100

\* the ids uuid.uuid4() may return, and the ids a client may ask for
IDs == {"u1", "u2"}

Fields == {"title", "description", "status", "priority", "assignee", "due_date"}

(* ------------------------------ inputs ------------------------------- *)

TitleA == <<"a">>
TitleBlank == <<" ">>
TitleMax == Rep("t", TitleMaxLen)
TitleTooLong == Rep("t", TitleMaxLen + 1)
DescD == <<"d">>
DescTooLong == Rep("d", DescriptionMaxLen + 1)
Bo == <<"b", "o">>
AssigneeTooLong == Rep("x", AssigneeMaxLen + 1)
Due1 == 5

\* what a client may send in each field of a JSON body: null, values on and
\* beyond each limit, and for an enumeration its default member, another member
\* and a string that is no member
FieldInputs(f) ==
  CASE f = "title" ->
         {None, Some(<<>>), Some(TitleBlank), Some(TitleA), Some(TitleMax),
          Some(TitleTooLong)}
    [] f = "description" -> {None, Some(DescD), Some(DescTooLong)}
    [] f = "status" -> {None, Some("bogus"), Some("todo"), Some("done")}
    [] f = "priority" -> {None, Some("urgent"), Some("medium"), Some("high")}
    [] f = "assignee" -> {None, Some(<<>>), Some(Bo), Some(AssigneeTooLong)}
    [] f = "due_date" -> {None, Some(Due1)}

\* a body with the one field f, supplied as v
Only(f, v) == f :> v

TitleParts == {Only("title", t) : t \in FieldInputs("title")}
OtherParts ==
  UNION {{Only(f, v) : v \in FieldInputs(f)} : f \in Fields \ {"title"}}

\* JSON bodies: the empty body, one field alone, or the title "a" and one other field
Bodies ==
  {<<>>} \cup TitleParts \cup OtherParts
    \cup {Only("title", Some(TitleA)) @@ o : o \in OtherParts}

\* the query parameters of GET /tasks: a parameter is absent (None) or a string
StatusParams == {None, Some("bogus")} \cup {Some(s) : s \in TaskStatus}
PriorityParams == {None, Some("urgent")} \cup {Some(p) : p \in TaskPriority}
AssigneeParams == {None, Some(<<>>), Some(Bo)}

(* ------------------------ request validation ------------------------- *)

\* Field(min_length=lo, max_length=hi) on an Optional[str]: None passes
StrOk(o, lo, hi) == o # None => (Len(o[1]) >= lo /\ Len(o[1]) <= hi)

\* one entry of a validation error: the field, when the check on it fails
Err(f, failed) == IF failed THEN {f} ELSE {}

\* TaskCreate: the fields of the body that fail validation
TaskCreateErrors(b) ==
  Err("title", \/ "title" \notin DOMAIN b
               \/ b["title"] = None
               \/ ~StrOk(b["title"], TitleMinLen, TitleMaxLen))
    \cup Err("description", ~StrOk(get(b, "description", None), 0, DescriptionMaxLen))
    \cup Err("status", /\ "status" \in DOMAIN b
                       /\ (b["status"] = None \/ b["status"][1] \notin TaskStatus))
    \cup Err("priority", /\ "priority" \in DOMAIN b
                         /\ (b["priority"] = None \/ b["priority"][1] \notin TaskPriority))
    \cup Err("assignee", ~StrOk(get(b, "assignee", None), 0, AssigneeMaxLen))

\* TaskCreate with the wrong default priority
TaskCreate_DefaultLow(b) ==
  [title |-> b["title"],
   description |-> IF "description" \in DOMAIN b THEN b["description"] ELSE None,
   status |-> IF "status" \in DOMAIN b THEN b["status"] ELSE Some("todo"),
   priority |-> IF "priority" \in DOMAIN b THEN b["priority"] ELSE Some("low"),
   assignee |-> IF "assignee" \in DOMAIN b THEN b["assignee"] ELSE None,
   due_date |-> IF "due_date" \in DOMAIN b THEN b["due_date"] ELSE None]

\* TaskCreate: the validated model, defaults applied
TaskCreate(b) ==
  [title |-> b["title"],
   description |-> get(b, "description", None),
   status |-> get(b, "status", Some("todo")),
   priority |-> get(b, "priority", Some("medium")),
   assignee |-> get(b, "assignee", None),
   due_date |-> get(b, "due_date", None)]

\* TaskUpdate with status declared Optional[str]: no membership check on it
TaskUpdateErrors_NoStatusCheck(b) ==
  Err("title", "title" \in DOMAIN b /\ ~StrOk(b["title"], TitleMinLen, TitleMaxLen))
    \cup Err("description",
             "description" \in DOMAIN b /\ ~StrOk(b["description"], 0, DescriptionMaxLen))
    \cup Err("priority", /\ "priority" \in DOMAIN b
                         /\ b["priority"] # None
                         /\ b["priority"][1] \notin TaskPriority)
    \cup Err("assignee",
             "assignee" \in DOMAIN b /\ ~StrOk(b["assignee"], 0, AssigneeMaxLen))

\* TaskUpdate with priority declared Optional[str]: no membership check on it
TaskUpdateErrors_NoPriorityCheck(b) ==
  Err("title", "title" \in DOMAIN b /\ ~StrOk(b["title"], TitleMinLen, TitleMaxLen))
    \cup Err("description",
             "description" \in DOMAIN b /\ ~StrOk(b["description"], 0, DescriptionMaxLen))
    \cup Err("status", /\ "status" \in DOMAIN b
                       /\ b["status"] # None
                       /\ b["status"][1] \notin TaskStatus)
    \cup Err("assignee",
             "assignee" \in DOMAIN b /\ ~StrOk(b["assignee"], 0, AssigneeMaxLen))

\* TaskUpdate: the fields of the body that fail validation
TaskUpdateErrors(b) ==
  Err("title", ~StrOk(get(b, "title", None), TitleMinLen, TitleMaxLen))
    \cup Err("description", ~StrOk(get(b, "description", None), 0, DescriptionMaxLen))
    \cup Err("status", LET s == get(b, "status", None)
                       IN s # None /\ s[1] \notin TaskStatus)
    \cup Err("priority", LET p == get(b, "priority", None)
                         IN p # None /\ p[1] \notin TaskPriority)
    \cup Err("assignee", ~StrOk(get(b, "assignee", None), 0, AssigneeMaxLen))

\* updates.model_dump(exclude_unset=True): the supplied fields only
model_dump(b) == b

\* the query parameters of GET /tasks that fail validation
QueryErrors(status, priority) ==
  Err("status", status # None /\ status[1] \notin TaskStatus)
    \cup Err("priority", priority # None /\ priority[1] \notin TaskPriority)

(* ----------------------------- the store ----------------------------- *)

ids(rows) == {r.id : r \in rows}

\* the NOT NULL columns of the tasks table
NotNullOk(r) == r.title # None /\ r.status # None /\ r.priority # None

\* the primary key of the tasks table
PrimaryKeyOk(rows, r) == r.id \notin ids(rows)

\* db.query(TaskModel).filter(TaskModel.id == task_id).first()
first(rows, task_id) ==
  IF task_id \in ids(rows) THEN Some(CHOOSE r \in rows : r.id = task_id) ELSE None

NoResponse == [op |-> "none", code |-> 0, body |-> <<>>]

Init ==
  /\ store = {}
  /\ now = 0
  /\ nreq = 0
  /\ response = NoResponse

(* ----------------------------- handlers ------------------------------ *)
(* A handler is an operator on the current state and the request's        *)
(* inputs.  Its parameter db is the session of the request: TRUE when the *)
(* database answers it, FALSE when the database raises.  Its value is the *)
(* outcome of the request: the status code, the body (on 422 the fields   *)
(* in error, on 404 the id that was not found) and the rows of the store  *)
(* after it.  An exception that no handler catches leaves the store as it *)
(* was and is answered 500.                                               *)

Outcome(code, body, rows) == [code |-> code, body |-> body, store |-> rows]

\* health_check without its try/except: the store's exception is answered 500
health_check_Raises(db) ==
  IF db
    THEN Outcome(200, [status |-> "healthy", tasks_count |-> Cardinality(store)], store)
    ELSE Outcome(500, <<>>, store)

\* GET /health
health_check(db) ==
  IF db
    THEN Outcome(200, [status |-> "healthy", tasks_count |-> Cardinality(store)], store)
    ELSE Outcome(200, [status |-> "unhealthy", database |-> "error"], store)

\* the filters of get_tasks applied to one row
Matches(r, status, priority, assignee) ==
  /\ TruthyEnum(status) => r.status = status
  /\ TruthyEnum(priority) => r.priority = priority
  /\ TruthyStr(assignee) => r.assignee = assignee

\* GET /tasks
get_tasks(status, priority, assignee, db) ==
  IF QueryErrors(status, priority) # {}
    THEN Outcome(422, QueryErrors(status, priority), store)
    ELSE IF ~db
      THEN Outcome(500, <<>>, store)
      ELSE Outcome(200, {r \in store : Matches(r, status, priority, assignee)}, store)

\* GET /tasks/{task_id}
get_task(task_id, db) ==
  IF ~db
    THEN Outcome(500, <<>>, store)
    ELSE LET task == first(store, task_id) IN
      IF task = None
        THEN Outcome(404, task_id, store)
        ELSE Outcome(200, task[1], store)

\* create_task with the title check moved after db.commit()
create_task_CommitFirst(body, uuid4, db) ==
  IF TaskCreateErrors(body) # {}
    THEN Outcome(422, TaskCreateErrors(body), store)
    ELSE LET task_data == TaskCreate(body)
             task == [id |-> uuid4,
                      title |-> task_data.title,
                      description |-> task_data.description,
                      status |-> task_data.status,
                      priority |-> task_data.priority,
                      assignee |-> task_data.assignee,
                      due_date |-> task_data.due_date,
                      created_at |-> now,
                      updated_at |-> now]
         IN IF ~db \/ ~PrimaryKeyOk(store, task) \/ ~NotNullOk(task)
              THEN Outcome(500, <<>>, store)
              ELSE IF strip(task_data.title[1]) = <<>>
                THEN Outcome(422, {"title"}, store \cup {task})
                ELSE Outcome(201, task, store \cup {task})

\* POST /tasks; uuid4 is the value uuid.uuid4() returns
create_task(body, uuid4, db) ==
  IF TaskCreateErrors(body) # {}
    THEN Outcome(422, TaskCreateErrors(body), store)
    ELSE LET task_data == TaskCreate(body) IN
      IF task_data.title[1] = <<>> \/ strip(task_data.title[1]) = <<>>
        THEN Outcome(422, {"title"}, store)
        ELSE LET task == [id |-> uuid4,
                          title |-> task_data.title,
                          description |-> task_data.description,
                          status |-> task_data.status,
                          priority |-> task_data.priority,
                          assignee |-> task_data.assignee,
                          due_date |-> task_data.due_date,
                          created_at |-> now,
                          updated_at |-> now]
             IN IF ~db \/ ~PrimaryKeyOk(store, task) \/ ~NotNullOk(task)
                  THEN Outcome(500, <<>>, store)
                  ELSE Outcome(201, task, store \cup {task})

\* the setattr calls of update_task without the one on updated_at
setattrs_NoTouch(task, fields_to_update) ==
  [task EXCEPT
     !.title = get(fields_to_update, "title", task.title),
     !.description = get(fields_to_update, "description", task.description),
     !.status = get(fields_to_update, "status", task.status),
     !.priority = get(fields_to_update, "priority", task.priority),
     !.assignee = get(fields_to_update, "assignee", task.assignee),
     !.due_date = get(fields_to_update, "due_date", task.due_date)]

\* the setattr calls of update_task: each mutable field takes the supplied value
\* or keeps its own, and updated_at takes datetime.utcnow()
setattrs(task, fields_to_update) ==
  [task EXCEPT
     !.title = get(fields_to_update, "title", task.title),
     !.description = get(fields_to_update, "description", task.description),
     !.status = get(fields_to_update, "status", task.status),
     !.priority = get(fields_to_update, "priority", task.priority),
     !.assignee = get(fields_to_update, "assignee", task.assignee),
     !.due_date = get(fields_to_update, "due_date", task.due_date),
     !.updated_at = now]

\* PUT /tasks/{task_id}
update_task(task_id, body, db) ==
  IF TaskUpdateErrors(body) # {}
    THEN Outcome(422, TaskUpdateErrors(body), store)
    ELSE IF ~db
      THEN Outcome(500, <<>>, store)
      ELSE LET found == first(store, task_id) IN
        IF found = None
          THEN Outcome(404, task_id, store)
          ELSE LET task == found[1]
                   fields_to_update == model_dump(body)
               IN IF get(fields_to_update, "title", None) = Some(<<>>)
                    THEN Outcome(422, {"title"}, store)
                    ELSE LET new == setattrs(task, fields_to_update)
                         IN IF ~NotNullOk(new)
                              THEN Outcome(500, <<>>, store)
                              ELSE Outcome(200, new, (store \ {task}) \cup {new})

\* delete_task without db.delete(task)
delete_task_KeepsRow(task_id, db) ==
  IF ~db
    THEN Outcome(500, <<>>, store)
    ELSE LET task == first(store, task_id) IN
      IF task = None
        THEN Outcome(404, task_id, store)
        ELSE Outcome(204, <<>>, store)

\* DELETE /tasks/{task_id}
delete_task(task_id, db) ==
  IF ~db
    THEN Outcome(500, <<>>, store)
    ELSE LET task == first(store, task_id) IN
      IF task = None
        THEN Outcome(404, task_id, store)
        ELSE Outcome(204, <<>>, store \ {task[1]})

(* ------------------------------ requests ----------------------------- *)

\* one request is handled: the handler's outcome becomes the response and the store
Handle(op, out) ==
  /\ nreq < MaxRequests
  /\ nreq' = nreq + 1
  /\ response' = [op |-> op, code |-> out.code, body |-> out.body]
  /\ store' = out.store
  /\ UNCHANGED now

HealthCheck == \E db \in BOOLEAN : Handle("health", health_check(db))

List ==
  \E s \in StatusParams, p \in PriorityParams, a \in AssigneeParams, db \in BOOLEAN :
    Handle("list", get_tasks(s, p, a, db))

Get == \E id \in IDs, db \in BOOLEAN : Handle("get", get_task(id, db))

Create ==
  \E b \in Bodies, uuid4 \in IDs, db \in BOOLEAN :
    Handle("create", create_task(b, uuid4, db))

Update ==
  \E id \in IDs, b \in Bodies, db \in BOOLEAN : Handle("update", update_task(id, b, db))

Delete == \E id \in IDs, db \in BOOLEAN : Handle("delete", delete_task(id, db))

(* --------------------------- the environment ------------------------- *)

\* the wall clock read by datetime.utcnow() advances
Tick ==
  /\ now < MaxTime
  /\ now' = now + 1
  /\ UNCHANGED <<store, nreq, response>>

Next ==
  \/ HealthCheck
  \/ List
  \/ Get
  \/ Create
  \/ Update
  \/ Delete
  \/ Tick

Spec == Init /\ [][Next]_vars

(* ------------------------------ claims ------------------------------- *)
(* In the formulas a handler is applied with db = TRUE, the database      *)
(* answering, unless the formula is about the database raising.           *)

\* the row of rows with the given id
row(rows, id) == CHOOSE r \in rows : r.id = id

\* this step handled a request, and it was answered as op / code
Answered(op, code) ==
  nreq' = nreq + 1 /\ response'.op = op /\ response'.code = code

\* the filter values GET /tasks accepts
GoodStatusParams == {None} \cup {Some(s) : s \in TaskStatus}
GoodPriorityParams == {None} \cup {Some(p) : p \in TaskPriority}

\* C1: every stored title is non-empty, not whitespace-only and at most 200
\* characters long, whatever sequence of Create, Update and Delete ran.
C1_TitleNeverBlank ==
  \A r \in store :
    /\ r.title # None
    /\ Len(r.title[1]) >= TitleMinLen
    /\ Len(r.title[1]) <= TitleMaxLen
    /\ strip(r.title[1]) # <<>>

\* bodies that fail the request schema: an empty or over-long title, an over-long
\* description or assignee, a status or priority outside its enumeration
C2_SchemaInvalid(b) ==
  \/ "title" \in DOMAIN b /\ b["title"] \in {Some(<<>>), Some(TitleTooLong)}
  \/ "description" \in DOMAIN b /\ b["description"] = Some(DescTooLong)
  \/ "status" \in DOMAIN b /\ b["status"] = Some("bogus")
  \/ "priority" \in DOMAIN b /\ b["priority"] = Some("urgent")
  \/ "assignee" \in DOMAIN b /\ b["assignee"] = Some(AssigneeTooLong)

\* C2 (as stated): Update on an id that is not in the store is answered 404 for
\* every partial input, schema-invalid inputs included.
C2_NotFoundFirst ==
  [][\A id \in IDs \ ids(store), b \in Bodies :
       Handle("update", update_task(id, b, TRUE)) => response'.code = 404]_vars

\* C2 (amended): Update on an id that is not in the store is answered 404 for
\* every partial input that passes the request schema (a whitespace-only title
\* and explicit nulls included) and 422 for every input that fails it; the
\* store is unchanged either way, and no Update is answered 404 for an id
\* that is stored.
C2_SchemaThenNotFound ==
  /\ [](\A id \in IDs \ ids(store), b \in Bodies :
          LET out == update_task(id, b, TRUE)
          IN /\ out.code = IF C2_SchemaInvalid(b) THEN 422 ELSE 404
             /\ out.store = store)
  /\ [][Answered("update", 404)
          => response'.body \notin ids(store) /\ store' = store]_vars

\* C2 witness: an Update of an id that is not stored was answered 404 while
\* another task is stored
C2_Witness ==
  /\ response.op = "update" /\ response.code = 404
  /\ response.body \notin ids(store)
  /\ store # {}

\* C3: a successful Update returns and stores a record in which every supplied
\* field has the supplied value, every absent field its previous value, and id
\* and created_at are unchanged; no other record changes.
C3_UpdateFrame ==
  /\ [](\A id \in ids(store), b \in Bodies :
          LET out == update_task(id, b, TRUE)
          IN out.code = 200
               => LET old == row(store, id)
                      new == out.body
                  IN /\ out.store = (store \ {old}) \cup {new}
                     /\ new.id = id
                     /\ new.created_at = old.created_at
                     /\ \A f \in Fields :
                          new[f] = IF f \in DOMAIN b THEN b[f] ELSE old[f])
  /\ [][Answered("update", 200)
          => LET new == response'.body
             IN /\ new.id \in ids(store)
                /\ store' = (store \ {row(store, new.id)}) \cup {new}]_vars

\* C3 witness: an Update that supplied the status alone was answered 200 with a
\* record that has the status done and keeps the title and the priority its
\* Create gave it
C3_Witness ==
  /\ response.op = "update" /\ response.code = 200
  /\ response.body \in store
  /\ response.body.status = Some("done")
  /\ response.body.priority = Some("high")
  /\ response.body.title = Some(TitleA)

\* C4: a successful Create returns and persists a record whose id no stored task
\* had, with created_at = updated_at, status todo when status was omitted and
\* priority medium when priority was omitted; ids stay pairwise distinct.
C4_CreateFresh ==
  /\ [](/\ \A r1, r2 \in store : r1.id = r2.id => r1 = r2
        /\ \A b \in Bodies, uuid4 \in IDs :
             LET out == create_task(b, uuid4, TRUE)
                 t == out.body
             IN out.code = 201
                  => /\ t.id \notin ids(store)
                     /\ out.store = store \cup {t}
                     /\ t.created_at = t.updated_at
                     /\ ("status" \notin DOMAIN b => t.status = Some("todo"))
                     /\ ("priority" \notin DOMAIN b => t.priority = Some("medium")))
  /\ [][Answered("create", 201)
          => LET t == response'.body
             IN /\ t.id \notin ids(store)
                /\ store' = store \cup {t}
                /\ t.created_at = now /\ t.updated_at = now]_vars

\* C4 witness: a second task was created with the default status and priority
C4_Witness ==
  /\ response.op = "create" /\ response.code = 201
  /\ Cardinality(store) = 2
  /\ response.body \in store
  /\ response.body.status = Some("todo")
  /\ response.body.priority = Some("medium")

\* C5: a successful Delete removes exactly the record with that id and leaves
\* every other record as it was; Delete of an id that is not stored is answered
\* 404 and removes nothing, Get of such an id is answered 404 and no List
\* result holds a record with such an id; and an id that is not stored stays
\* out of the store until a Create is answered with it.
C5_DeleteGone ==
  /\ [](\A id \in IDs :
          /\ \A db \in BOOLEAN :
               LET out == delete_task(id, db)
               IN out.code = 204
                    => id \in ids(store) /\ out.store = {r \in store : r.id # id}
          /\ id \notin ids(store)
               => /\ delete_task(id, TRUE).code = 404
                  /\ delete_task(id, TRUE).store = store
                  /\ get_task(id, TRUE).code = 404
                  /\ \A s \in GoodStatusParams, p \in GoodPriorityParams,
                        a \in AssigneeParams :
                       id \notin ids(get_tasks(s, p, a, TRUE).body))
  /\ [][\A id \in IDs :
          (id \notin ids(store) /\ id \in ids(store'))
            => Answered("create", 201) /\ response'.body.id = id]_vars

\* C5 witness: a Delete of the only stored task was answered 204
C5_Witness ==
  /\ response.op = "delete" /\ response.code = 204
  /\ store = {}

\* C6: List is answered 200 with exactly the stored records that equal every
\* supplied filter value (all of them when no filter is supplied, none when
\* nothing matches).
C6_ListExact ==
  [][\A s \in GoodStatusParams, p \in GoodPriorityParams, a \in AssigneeParams :
       Handle("list", get_tasks(s, p, a, TRUE))
         => /\ response'.code = 200
            /\ response'.body =
                 {r \in store : /\ s # None => r.status = s
                                /\ p # None => r.priority = p
                                /\ a # None => r.assignee = a}]_vars

\* the bodies that supply a status or a priority outside its enumeration
C7_NonMemberBodies ==
  {b \in Bodies :
     \/ "status" \in DOMAIN b /\ b["status"] # None /\ b["status"][1] \notin TaskStatus
     \/ "priority" \in DOMAIN b /\ b["priority"] # None
          /\ b["priority"][1] \notin TaskPriority}

C7_StatusValues == {Some(s) : s \in TaskStatus}
C7_PriorityValues == {Some(p) : p \in TaskPriority}

C9_StrictlyLater ==
  [][Answered("update", 200)
       => response'.body.updated_at > row(store, response'.body.id).updated_at]_vars

\* C9 (amended): every successful Update sets updated_at to the current time,
\* which is not less than the value it had (it is equal when the clock has not
\* advanced since), and never changes created_at; updated_at >= created_at holds
\* for every stored task.
C9_NotEarlier ==
  /\ [](\A r \in store : r.updated_at >= r.created_at)
  /\ [][Answered("update", 200)
          => LET new == response'.body
                 old == row(store, new.id)
             IN /\ new \in store'
                /\ new.updated_at = now
                /\ new.updated_at >= old.updated_at
                /\ new.created_at = old.created_at]_vars

\* C9 witness: an Update was answered 200 after the clock had advanced
C9_Witness ==
  /\ response.op = "update" /\ response.code = 200
  /\ response.body \in store
  /\ response.body.updated_at > response.body.created_at

\* C10: a Create, Update or Delete answered 422 or 404 leaves the store exactly
\* as it was; Get and List never change the store; and, the store unchanged
\* since, repeating the Get that was answered last is answered the same.
C10_FailuresChangeNothing ==
  /\ [][(nreq' = nreq + 1 /\ response'.op \in {"create", "update", "delete"}
           /\ response'.code \in {422, 404})
          => store' = store]_vars
  /\ [][(nreq' = nreq + 1 /\ response'.op \in {"get", "list"}) => store' = store]_vars
  /\ []((response.op = "get" /\ response.code \in {200, 404})
          => LET id == IF response.code = 200 THEN response.body.id ELSE response.body
                 again == get_task(id, TRUE)
             IN again.code = response.code /\ again.body = response.body)

\* C10 witness: an Update of a stored task was answered 422 for its title
C10_Witness ==
  /\ response.op = "update" /\ response.code = 422
  /\ response.body = {"title"}
  /\ store # {}

====
